---- MODULE Spec2Model ----
(***************************************************************************)
(* Model of racs_tools/beamcon_3D.py: the common-beam planner              *)
(* (masking, commonbeamer, readlogs) run by rank 0, and the MPI phases of  *)
(* main (barriers, broadcasts, gather, file initialisation, convolution).  *)
(*                                                                         *)
(* Beam geometry.  Every beam of the model is an ellipse aligned with the  *)
(* pixel axes, held as its squared FWHM along x and along y.  The unit of  *)
(* length is the rounding quantum of my_ceil(precision=1), 0.1 arcsec, so  *)
(* x = 9 is an axis of 0.3 arcsec.  For such beams convolution adds the    *)
(* components, deconvolution subtracts them (and fails if a component      *)
(* would be negative), the major axis is the larger component, the minor   *)
(* axis the smaller one and the position angle is 0 or 90 degrees.         *)
(* A number that was scaled down by the arcsec/deg factor is kept exactly: *)
(* inv = TRUE means the components stand for x/DegSq and y/DegSq.          *)
(***************************************************************************)
EXTENDS Integers, Sequences, FiniteSets, TLC

\* ------------------------------------------------------------------ bounds
MaxPE == 3
MaxFiles == 2
MaxChans == 2
MaxTaskChans == 5

\* (3600 arcsec per degree) squared: the factor between squared lengths
DegSq == 12960000

\* args.tolerance, in units of 1e-5 (default 0.0001), args.nsamps, and
\* args.epsilon in units of 1e-4 (default 0.0005)
Tolerance == 10
Nsamps == 200
Epsilon == 5

\* ------------------------------------------------------------------ numbers
NaNBeam == [nan |-> TRUE, x |-> 0, y |-> 0, inv |-> FALSE]

Bm(x, y) == [nan |-> FALSE, x |-> x, y |-> y, inv |-> FALSE]

Min2(a, b) == IF a <= b THEN a ELSE b

Max2(a, b) == IF a >= b THEN a ELSE b

\* a Beam object: the numbers it holds (b) and the unit of its major/minor
Obj(b, u) == [b |-> b, u |-> u]

NaNObj == Obj(NaNBeam, "deg")

\* Quantity.to(u.arcsec): the physical beam, in quanta squared
ToArcsec(o) ==
    IF o.b.nan THEN NaNBeam
    ELSE IF o.u = "arcsec" THEN o.b
    ELSE IF o.b.inv THEN [o.b EXCEPT !.inv = FALSE]
    ELSE Bm(o.b.x * DegSq, o.b.y * DegSq)

\* the numbers of a physical beam when expressed in unit u
ValueIn(p, u) ==
    IF p.nan THEN NaNBeam
    ELSE IF u = "arcsec" THEN p
    ELSE IF p.x = 0 /\ p.y = 0 THEN p
    ELSE IF p.x % DegSq = 0 /\ p.y % DegSq = 0
         THEN Bm(p.x \div DegSq, p.y \div DegSq)
    ELSE [p EXCEPT !.inv = TRUE]

\* Beams[idx]: entry k of a Beams object, as a Beam object
At(beams, k) == Obj(beams.v[k], beams.u)

\* the physical entries of a Beams object
Phys(beams) == [k \in 1..Len(beams.v) |-> ToArcsec(At(beams, k))]

RECURSIVE CeilRoot(_, _)
CeilRoot(v, k) == IF k * k >= v THEN k ELSE CeilRoot(v, k + 1)

\* my_ceil(value, precision=1) of an axis: the next multiple of the quantum
MyCeil(v) == CeilRoot(v, 0) * CeilRoot(v, 0)

\* the "Round up values" block: major and minor through my_ceil, in arcsec
RoundUp(p) == Obj(Bm(MyCeil(p.x), MyCeil(p.y)), "arcsec")

\* au2.gauss_factor: NaN in, NaN out; otherwise a number fixed by its inputs
NaNFac == [nan |-> TRUE, conv |-> NaNBeam, orig |-> NaNBeam, dx |-> 0, dy |-> 0]

GaussFactor(conv, orig, dx, dy) ==
    IF conv.nan \/ orig.nan THEN NaNFac
    ELSE [nan |-> FALSE, conv |-> conv, orig |-> orig, dx |-> dx, dy |-> dy]

\* ------------------------------------------------------------------- state
VARIABLES
    args,       \* the command line: mode, conv_mode, dryrun, uselogs, target, cutoff
    env,        \* what the run meets: ranks, input files, library behaviour, faults
    datadict,   \* rank 0's datadict, one record per cube_i (empty before makedata)
    nchans,     \* rank 0's nchans (0 before the channel-count check)
    logs,       \* the beamlogConvolve-{mode} file of every image, on disk
    outfiles,   \* the output cube of every image, on disk
    solves,     \* every call of Beams.common_beam made so far, in order
    guards,     \* the Nyquist checks made so far: [chan, under]
    pc,         \* where each rank is in main
    err,        \* the exception that ended each rank ("none" if none)
    arrived,    \* how many comm.Barrier() calls each rank has entered
    sent,       \* how many comm.bcast() rounds rank 0 has sent
    rng,        \* each rank's [my_start, my_end, next], 0-based as in the code
    outfile_dict, \* each rank's outfile_dict: the images it initialised
    outlist,    \* what comm.gather has collected at rank 0, per rank
    inputs      \* rank 0's list of (key, chan) tasks (empty before it is built)

vars == <<args, env, datadict, nchans, logs, outfiles, solves, guards, pc, err,
          arrived, sent, rng, outfile_dict, outlist, inputs>>

Ranks == 0..(env.nPE - 1)

Images == 1..env.nfiles

EmptyBeams == [u |-> "arcsec", v |-> <<>>]

NoLog == [exists |-> FALSE, target |-> <<>>, conv |-> <<>>, fac |-> <<>>,
          tunit |-> "arcsec", cunit |-> "arcsec"]

\* ------------------------------------------------- radio_beam, as it is used
Dominates(a, b) == a.x >= b.x /\ a.y >= b.y

\* Beam.deconvolve: the beam that convolved with o gives c.  NaN propagates;
\* a beam that o does not fit into cannot be deconvolved and the call raises.
\* The unit of the result is the library's choice: degrees in the releases
\* that go through header keywords, the unit of c's major axis in the others.
Deconvolve(c, o) ==
    LET pc_ == ToArcsec(c)
        po == ToArcsec(o)
        u == IF env.libDeconvDeg THEN "deg" ELSE c.u
    IN  IF pc_.nan \/ po.nan THEN [ok |-> TRUE, obj |-> Obj(NaNBeam, u)]
        ELSE IF ~Dominates(pc_, po) THEN [ok |-> FALSE, obj |-> NaNObj]
        ELSE [ok |-> TRUE,
              obj |-> Obj(ValueIn(Bm(pc_.x - po.x, pc_.y - po.y), u), u)]

\* Beam.convolve, on physical beams
Convolve(a, b) == Bm(a.x + b.x, a.y + b.y)

\* beams[~np.isnan(beams)]
NonNaN(S) == SelectSeq(S, LAMBDA b : ~b.nan)

\* the smallest beam every beam of S fits into
Enclose(S) ==
    LET mx == CHOOSE m \in {S[k].x : k \in 1..Len(S)} :
                  \A k \in 1..Len(S) : S[k].x <= m
        my == CHOOSE m \in {S[k].y : k \in 1..Len(S)} :
                  \A k \in 1..Len(S) : S[k].y <= m
    IN  Bm(mx, my)

\* common_beam returns at once for one beam or when every beam fits in the
\* largest; otherwise it runs the numerical search, which is what can fail
NeedsSearch(S) ==
    /\ Len(S) >= 2
    /\ ~\E k \in 1..Len(S) : \A j \in 1..Len(S) : Dominates(S[k], S[j])

\* the search stops within its tolerance of the smallest enclosing beam
Slack(tol) == tol \div 10

\* Beams.common_beam(tolerance, nsamps, epsilon): the k-th call made for
\* solve n.  An empty set has no largest beam and the call raises (not a
\* BeamError); the first env.solverFails[n] searches of solve n do not converge.
LibCommonBeam(S, tol, k, n) ==
    IF Len(S) = 0 THEN [err |-> "ValueError", beam |-> NaNBeam]
    ELSE IF ~NeedsSearch(S) THEN [err |-> "none", beam |-> Enclose(S)]
    ELSE IF k <= env.solverFails[n] THEN [err |-> "BeamError", beam |-> NaNBeam]
    ELSE [err |-> "none",
          beam |-> Bm(Enclose(S).x + Slack(tol), Enclose(S).y + Slack(tol))]

Attempt(S, tol, n, r) ==
    [chan |-> n, beams |-> S, tolerance |-> tol, nsamps |-> Nsamps,
     epsilon |-> Epsilon, ok |-> r.err = "none", beam |-> r.beam]

\* tolerance*0.1
Tenth(tol) == tol \div 10

\* a retry that repeats the first call, tolerance unchanged
MutSolveWithRetry(beams, n) ==
    LET a1 == LibCommonBeam(NonNaN(beams), Tolerance, 1, n)
        t1 == Attempt(NonNaN(beams), Tolerance, n, a1)
        a2 == LibCommonBeam(NonNaN(beams), Tolerance, 2, n)
        t2 == Attempt(NonNaN(beams), Tolerance, n, a2)
    IN  IF a1.err # "BeamError"
        THEN [err |-> a1.err, beam |-> a1.beam, tries |-> <<t1>>]
        ELSE [err |-> a2.err, beam |-> a2.beam, tries |-> <<t1, t2>>]

\* try: common_beam(tolerance) except BeamError: common_beam(tolerance*0.1)
SolveWithRetry(beams, n) ==
    LET a1 == LibCommonBeam(NonNaN(beams), Tolerance, 1, n)
        t1 == Attempt(NonNaN(beams), Tolerance, n, a1)
        a2 == LibCommonBeam(NonNaN(beams), Tenth(Tolerance), 2, n)
        t2 == Attempt(NonNaN(beams), Tenth(Tolerance), n, a2)
    IN  IF a1.err # "BeamError"
        THEN [err |-> a1.err, beam |-> a1.beam, tries |-> <<t1>>]
        ELSE [err |-> a2.err, beam |-> a2.beam, tries |-> <<t1, t2>>]

\* ------------------------------------------------------------ commonbeamer
\* grid = datadict[key]["dy"]: key is left over from the loop over the images
GuardGrid(dd) == dd[Len(dd)].dy

\* a check that asks for one sample across the minor axis, not two
MutNyquistCheck(common, beams, grid) ==
    LET S == NonNaN(beams)
        dec == [k \in 1..Len(S) |-> Deconvolve(common, Obj(S[k], "arcsec"))]
        minor(k) == Min2(ToArcsec(dec[k].obj).x, ToArcsec(dec[k].obj).y)
    IN  [ok |-> \A k \in 1..Len(S) : dec[k].ok,
         under |-> \E k \in 1..Len(S) :
                      /\ dec[k].ok
                      /\ ~ToArcsec(dec[k].obj).nan
                      /\ minor(k) < grid * grid,
         nyq |-> IF common.b.nan THEN NaNObj
                 ELSE RoundUp(Convolve(ToArcsec(common),
                                       Bm(4 * grid * grid, 4 * grid * grid)))]

\* "Check that convolving beam will be Nyquist sampled": the minor axis of
\* commonbeam.deconvolve(beam) over the grid, for every non-NaN beam; under is
\* any(samps < 2), nyq the rounded commonbeam.convolve(nyq_con_beam)
NyquistCheck(common, beams, grid) ==
    LET S == NonNaN(beams)
        dec == [k \in 1..Len(S) |-> Deconvolve(common, Obj(S[k], "arcsec"))]
        minor(k) == Min2(ToArcsec(dec[k].obj).x, ToArcsec(dec[k].obj).y)
    IN  [ok |-> \A k \in 1..Len(S) : dec[k].ok,
         under |-> \E k \in 1..Len(S) :
                      /\ dec[k].ok
                      /\ ~ToArcsec(dec[k].obj).nan
                      /\ minor(k) < 4 * grid * grid,
         nyq |-> IF common.b.nan THEN NaNObj
                 ELSE RoundUp(Convolve(ToArcsec(common),
                                       Bm(4 * grid * grid, 4 * grid * grid)))]

\* the beams of channel n over the images, masked entries made NaN
ChannelBeams(dd, n) ==
    [i \in 1..Len(dd) |->
        IF dd[i].mask[n] THEN NaNBeam ELSE ToArcsec(At(dd[i].beams, n))]

\* the NaN beam of a channel whose beams are all NaN, or the result of an
\* exception: no solve, no check
NoSolve(e, obj, tries) ==
    [err |-> e, obj |-> obj, tries |-> tries, guards |-> <<>>]

\* a check that warns and keeps the rounded beam
MutGuarded(rounded, chk, tries, n) ==
    IF ~chk.ok THEN NoSolve("DeconvolveError", NaNObj, tries)
    ELSE [err |-> "none", obj |-> rounded, tries |-> tries,
          guards |-> <<[chan |-> n, under |-> chk.under]>>]

\* "Check that convolving beam will be Nyquist sampled", natural mode: the
\* rounded beam stands unless some sample count is below 2
Guarded(rounded, chk, tries, n) ==
    IF ~chk.ok THEN NoSolve("DeconvolveError", NaNObj, tries)
    ELSE [err |-> "none",
          obj |-> IF chk.under THEN chk.nyq ELSE rounded,
          tries |-> tries,
          guards |-> <<[chan |-> n, under |-> chk.under]>>]

\* after the try/except of one channel: round up, then the check unless robust
Solved(sol, rounded, beams, n, conv_mode, grid) ==
    IF sol.err # "none" THEN NoSolve(sol.err, NaNObj, sol.tries)
    ELSE IF conv_mode = "robust" THEN NoSolve("none", rounded, sol.tries)
    ELSE Guarded(rounded, NyquistCheck(rounded, beams, grid), sol.tries, n)

SolveChannel(sol, beams, n, conv_mode, grid) ==
    Solved(sol, RoundUp(sol.beam), beams, n, conv_mode, grid)

\* natural mode, one channel of the "Finding common beam per channel" loop
ChannelOf(beams, n, conv_mode, grid) ==
    IF \A k \in 1..Len(beams) : beams[k].nan
    THEN NoSolve("none", NaNObj, <<>>)
    ELSE SolveChannel(SolveWithRetry(beams, n), beams, n, conv_mode, grid)

ChannelCommon(dd, n, conv_mode) ==
    ChannelOf(ChannelBeams(dd, n), n, conv_mode, GuardGrid(dd))

Accumulate(acc, c) ==
    [err |-> c.err, objs |-> Append(acc.objs, c.obj),
     tries |-> acc.tries \o c.tries, guards |-> acc.guards \o c.guards]

\* the loop over the channels; it ends at the first exception
RECURSIVE NaturalLoop(_, _, _, _)
NaturalLoop(dd, n, conv_mode, acc) ==
    IF acc.err # "none" \/ n > Len(dd[1].mask) THEN acc
    ELSE NaturalLoop(dd, n + 1, conv_mode,
                     Accumulate(acc, ChannelCommon(dd, n, conv_mode)))

\* bmaj_common.append(commonbeam.major.value) per channel, then
\* bmaj_common *= commonbeam.major.unit: the numbers of every channel, each
\* taken in its own unit, with the unit of the last channel's beam
AssembleCommon(objs) ==
    [u |-> objs[Len(objs)].u, v |-> [k \in 1..Len(objs) |-> objs[k].b]]

NaturalResult(dd, r) ==
    [err |-> r.err, dd |-> dd,
     commonbeams |-> IF r.err = "none" THEN AssembleCommon(r.objs)
                     ELSE EmptyBeams,
     tries |-> r.tries, guards |-> r.guards]

\* mode == 'natural': [err, dd, commonbeams, tries, guards]
NaturalCommon(dd, conv_mode) ==
    NaturalResult(dd, NaturalLoop(dd, 1, conv_mode,
                                  [err |-> "none", objs |-> <<>>,
                                   tries |-> <<>>, guards |-> <<>>]))

\* major[datadict[key]['mask']] *= np.nan: in total mode the masked entries
\* of the image's own Beams object become NaN in place
MaskBeams(d) ==
    [d EXCEPT !.beams.v = [k \in 1..Len(d.beams.v) |->
                              IF d.mask[k] THEN NaNBeam ELSE d.beams.v[k]]]

RECURSIVE Flatten(_, _)
Flatten(dd, i) ==
    IF i > Len(dd) THEN <<>> ELSE Phys(dd[i].beams) \o Flatten(dd, i + 1)

\* target_beam < nyq_beam: Beam is a Quantity of solid angle, so the
\* comparison is one of beam areas (major times minor)
BeamLess(a, b) == ToArcsec(a).x * ToArcsec(a).y < ToArcsec(b).x * ToArcsec(b).y

\* a Nyquist block that adopts the Nyquist beam in place of the target
MutTotalGuarded(first, chk, target, conv_mode) ==
    IF conv_mode = "robust" THEN [err |-> "none", obj |-> first]
    ELSE IF ~chk.ok THEN [err |-> "DeconvolveError", obj |-> NaNObj]
    ELSE IF ~chk.under THEN [err |-> "none", obj |-> first]
    ELSE [err |-> "none", obj |-> chk.nyq]

\* the Nyquist block of total mode: an under-sampled target is fatal, an
\* under-sampled solved beam is replaced by the Nyquist beam
TotalGuarded(first, chk, target, conv_mode) ==
    IF conv_mode = "robust" THEN [err |-> "none", obj |-> first]
    ELSE IF ~chk.ok THEN [err |-> "DeconvolveError", obj |-> NaNObj]
    ELSE IF ~chk.under THEN [err |-> "none", obj |-> first]
    ELSE IF target.given # "all" THEN [err |-> "none", obj |-> chk.nyq]
    ELSE IF BeamLess(Obj(target.b, "arcsec"), chk.nyq)
         THEN [err |-> "Undersample", obj |-> NaNObj]
    ELSE [err |-> "none", obj |-> Obj(target.b, "arcsec")]

\* the rounded solved beam, whatever the target
MutTotalFirst(sol, target) == RoundUp(sol.beam)

\* if target_beam is not None: commonbeam = target_beam, else "Round up values"
TotalFirst(sol, target) ==
    IF target.given = "all" THEN Obj(target.b, "arcsec") ELSE RoundUp(sol.beam)

TotalResult(dd1, sol, g, ran, under, nch) ==
    [err |-> IF sol.err # "none" THEN sol.err ELSE g.err,
     dd |-> dd1,
     commonbeams |-> IF sol.err = "none" /\ g.err = "none"
                     THEN [u |-> g.obj.u, v |-> [k \in 1..nch |-> g.obj.b]]
                     ELSE EmptyBeams,
     tries |-> sol.tries,
     guards |-> IF sol.err = "none" /\ ran
                THEN <<[chan |-> 1, under |-> under]>> ELSE <<>>]

TotalChecked(dd1, sol, first, chk, target, conv_mode, nch) ==
    TotalResult(dd1, sol, TotalGuarded(first, chk, target, conv_mode),
                conv_mode # "robust" /\ chk.ok, chk.under, nch)

TotalSolved(dd1, big_beams, sol, first, target, conv_mode, nch) ==
    TotalChecked(dd1, sol, first, NyquistCheck(first, big_beams, GuardGrid(dd1)),
                 target, conv_mode, nch)

TotalOf(dd1, big_beams, sol, target, conv_mode, nch) ==
    TotalSolved(dd1, big_beams, sol, TotalFirst(sol, target), target,
                conv_mode, nch)

TotalFlat(dd1, big_beams, conv_mode, target, nch) ==
    TotalOf(dd1, big_beams, SolveWithRetry(big_beams, 1), target, conv_mode, nch)

TotalMasked(dd1, conv_mode, target, nch) ==
    TotalFlat(dd1, Flatten(dd1, 1), conv_mode, target, nch)

\* mode == 'total': [err, dd, commonbeams, tries, guards]
TotalCommon(dd, conv_mode, target, nch) ==
    TotalMasked([i \in 1..Len(dd) |-> MaskBeams(dd[i])], conv_mode, target, nch)

ZipLen(commonbeams, d) ==
    Min2(Len(commonbeams.v), Min2(Len(d.beams.v), Len(d.mask)))

\* "Get convolving beams" for one image: NaN where masked, else
\* commonbeam.deconvolve(oldbeam)
ConvObjs(commonbeams, d) ==
    [k \in 1..ZipLen(commonbeams, d) |->
        IF d.mask[k] THEN [ok |-> TRUE, obj |-> NaNObj]
        ELSE Deconvolve(At(commonbeams, k), At(d.beams, k))]

\* conv_bmaj.append(convbeam.major.value); conv_bmaj *= convbeam.major.unit
AssembleConv(cs) ==
    IF Len(cs) = 0 THEN EmptyBeams
    ELSE [u |-> cs[Len(cs)].obj.u, v |-> [k \in 1..Len(cs) |-> cs[k].obj.b]]

\* getfacs: gauss_factor of each convolving beam and original beam in arcsec
GetFacs(d, convbeams) ==
    [k \in 1..Min2(Len(convbeams.v), Len(d.beams.v)) |->
        GaussFactor(ToArcsec(At(convbeams, k)), ToArcsec(At(d.beams, k)),
                    d.dx, d.dy)]

\* ascii.write(commonbeam_tab): the numbers of every column as they stand in
\* the column's own unit; the units go into a comment line only
WriteLog(commonbeams, convbeams, facs) ==
    [exists |-> TRUE, target |-> commonbeams.v, conv |-> convbeams.v,
     fac |-> facs, tunit |-> commonbeams.u, cunit |-> convbeams.u]

\* one image of the "Getting convolution data" loop: facs, convbeams,
\* commonbeams stored, and the log written
StoreImage(d, commonbeams, convbeams, facs) ==
    [d EXCEPT !.facs = facs, !.convbeams = convbeams, !.commonbeams = commonbeams]

ConvImageWith(d, commonbeams, convbeams, facs) ==
    [d |-> StoreImage(d, commonbeams, convbeams, facs),
     log |-> WriteLog(commonbeams, convbeams, facs)]

ConvImageOf(d, commonbeams, convbeams) ==
    ConvImageWith(d, commonbeams, convbeams, GetFacs(d, convbeams))

ConvImage(d, commonbeams, cs) ==
    IF \E k \in 1..Len(cs) : ~cs[k].ok
    THEN [ok |-> FALSE, d |-> d, log |-> NoLog]
    ELSE [ok |-> TRUE] @@ ConvImageOf(d, commonbeams, AssembleConv(cs))

ConvStep(dd, lg, i, c) ==
    IF c.ok
    THEN [err |-> "none", dd |-> [dd EXCEPT ![i] = c.d],
          logs |-> [lg EXCEPT ![i] = c.log]]
    ELSE [err |-> "DeconvolveError", dd |-> dd, logs |-> lg]

\* the loop over the images; an exception in deconvolve ends it, with the
\* earlier images already stored and logged
RECURSIVE ConvLoop(_, _)
ConvLoop(acc, commonbeams) ==
    IF acc.err # "none" \/ acc.i > Len(acc.dd) THEN acc
    ELSE ConvLoop([i |-> acc.i + 1] @@
                  ConvStep(acc.dd, acc.logs, acc.i,
                           ConvImage(acc.dd[acc.i], commonbeams,
                                     ConvObjs(commonbeams, acc.dd[acc.i]))),
                  commonbeams)

CommonbeamerResult(cb, cv) ==
    [err |-> cv.err, dd |-> cv.dd, logs |-> cv.logs, tries |-> cb.tries,
     guards |-> cb.guards]

\* what follows the mode branches: nothing if they raised, else the loop
AfterCommon(cb, lg) ==
    IF cb.err # "none"
    THEN CommonbeamerResult(cb, [err |-> cb.err, dd |-> cb.dd, logs |-> lg])
    ELSE CommonbeamerResult(cb, ConvLoop([i |-> 1, err |-> "none",
                                          dd |-> cb.dd, logs |-> lg],
                                         cb.commonbeams))

\* commonbeamer(datadict, nchans, args, conv_mode, mode, target_beam):
\* [err, dd, logs, tries, guards].  With a mode that is neither 'natural'
\* nor 'total' no branch binds commonbeams and its first use raises.
Commonbeamer(dd, lg, nch, a) ==
    AfterCommon(IF a.mode = "natural" THEN NaturalCommon(dd, a.conv_mode)
                ELSE IF a.mode = "total"
                THEN TotalCommon(dd, a.conv_mode, a.target, nch)
                ELSE [err |-> "UnboundLocalError:commonbeams", dd |-> dd,
                      commonbeams |-> EmptyBeams, tries |-> <<>>,
                      guards |-> <<>>],
                lg)

\* ----------------------------------------------------------------- readlogs
\* Table.read of each image's log, the columns taken as arcsec (and deg for
\* the angle); a missing file raises, with the earlier images already set
RECURSIVE ReadLoop(_, _, _)
ReadLoop(dd, lg, i) ==
    IF i > Len(dd) THEN [err |-> "none", dd |-> dd]
    ELSE IF ~lg[i].exists THEN [err |-> "MissingLog", dd |-> dd]
    ELSE ReadLoop([dd EXCEPT ![i].facs = lg[i].fac,
                             ![i].convbeams = [u |-> "arcsec", v |-> lg[i].conv],
                             ![i].commonbeams = [u |-> "arcsec", v |-> lg[i].target]],
                  lg, i + 1)

Readlogs(dd, lg) == ReadLoop(dd, lg, 1)

\* ------------------------------------------------------------------ masking
\* majors > cutoff (cutoff2 is the cutoff squared; NaN compares False)
CutMask(b, cutoff) ==
    cutoff.given /\ ~b.nan /\ Max2(b.x, b.y) > cutoff.c2

\* beams == nullbeam
NullMask(b) == ~b.nan /\ b.x = 0 /\ b.y = 0

\* mask = np.array([False]*nchans)
ResetMask(nch, d) == [d EXCEPT !.mask = [k \in 1..nch |-> FALSE]]

\* a cutoff that also blanks the entries at the cutoff
MutCutStep(cutoff, d) ==
    [d EXCEPT !.mask =
        [k \in 1..Len(d.mask) |->
            \/ d.mask[k]
            \/ /\ k <= Len(d.beams.v)
               /\ cutoff.given /\ ~d.beams.v[k].nan
               /\ Max2(d.beams.v[k].x, d.beams.v[k].y) >= cutoff.c2]]

\* if cutoff is not None: mask += majors > cutoff
CutStep(cutoff, d) ==
    [d EXCEPT !.mask =
        [k \in 1..Len(d.mask) |->
            \/ d.mask[k]
            \/ /\ k <= Len(d.beams.v)
               /\ CutMask(ToArcsec(At(d.beams, k)), cutoff)]]

\* a second source that overwrites the mask of the first
MutNullStep(d) ==
    [d EXCEPT !.mask =
        [k \in 1..Len(d.mask) |->
            /\ k <= Len(d.beams.v)
            /\ NullMask(ToArcsec(At(d.beams, k)))]]

\* mask += beams == nullbeam
NullStep(d) ==
    [d EXCEPT !.mask =
        [k \in 1..Len(d.mask) |->
            \/ d.mask[k]
            \/ /\ k <= Len(d.beams.v)
               /\ NullMask(ToArcsec(At(d.beams, k)))]]

Masking(nch, cutoff, dd) ==
    [i \in 1..Len(dd) |-> NullStep(CutStep(cutoff, ResetMask(nch, dd[i])))]

\* --------------------------------------------------------------------- Init
\* the beams a beamlog row can hold: undefined, the pipeline's null beam,
\* and three measured beams, two of which do not fit into one another
BeamVals == {NaNBeam, Bm(0, 0), Bm(5, 5), Bm(16, 5), Bm(5, 16)}

NoTarget == [given |-> "none", b |-> NaNBeam]

\* --bmaj/--bmin/--bpa: absent, or a beam of 5 or of 25 quanta squared
Targets == {NoTarget, [given |-> "all", b |-> Bm(5, 5)],
            [given |-> "all", b |-> Bm(25, 25)]}

NoCutoff == [given |-> FALSE, c2 |-> 0]

\* --cutoff: absent, or 0.3 arcsec (9 quanta squared)
Cutoffs == {NoCutoff, [given |-> TRUE, c2 |-> 9]}

NoFault == [phase |-> "none", idx |-> 0]

\* an I/O failure of initfiles on one image, or of one convolution task
Faults(nf, nch) ==
    {NoFault} \cup {[phase |-> "init", idx |-> i] : i \in 1..nf}
              \cup {[phase |-> "conv", idx |-> t] : t \in 1..(nf * nch)}

\* a log left by an earlier run: a 16x16 target reached from a 9x9 beam
OldLog(nch) ==
    [exists |-> TRUE, target |-> [k \in 1..nch |-> Bm(16, 16)],
     conv |-> [k \in 1..nch |-> Bm(7, 7)],
     fac |-> [k \in 1..nch |-> GaussFactor(Bm(7, 7), Bm(9, 9), 1, 1)],
     tunit |-> "arcsec", cunit |-> "arcsec"]

\* a beamlog entry as it enters a solve: NaN if the masks will blank it
Kept(b, cutoff) == IF CutMask(b, cutoff) \/ NullMask(b) THEN NaNBeam ELSE b

RECURSIVE FlatLog(_, _, _)
FlatLog(beamlog, cutoff, i) ==
    IF i > Len(beamlog) THEN <<>>
    ELSE [k \in 1..Len(beamlog[i]) |-> Kept(beamlog[i][k], cutoff)]
         \o FlatLog(beamlog, cutoff, i + 1)

\* the beams that enter solve n, from the beamlogs and the cutoff
SolveSet(mode, cutoff, beamlog, n) ==
    NonNaN(IF mode = "natural"
           THEN [i \in 1..Len(beamlog) |-> Kept(beamlog[i][n], cutoff)]
           ELSE FlatLog(beamlog, cutoff, 1))

\* the search can only fail where it is run
FailsWhereRun(mode, cutoff, beamlog, nch, sf) ==
    \A n \in 1..nch :
        sf[n] > 0 => /\ n <= (IF mode = "natural" THEN nch ELSE 1)
                     /\ NeedsSearch(SolveSet(mode, cutoff, beamlog, n))

MkArgs(mode, conv_mode, dryrun, uselogs, target, cutoff) ==
    [mode |-> mode, conv_mode |-> conv_mode, dryrun |-> dryrun,
     uselogs |-> uselogs, target |-> target, cutoff |-> cutoff]

\* CDELT1/CDELT2 of the images, in quanta: square pixels of size 1, or the
\* last image on a grid twice as coarse
Grids(nf) ==
    {[i \in 1..nf |-> [dx |-> 1, dy |-> 1]],
     [i \in 1..nf |-> IF i = nf THEN [dx |-> 2, dy |-> 2]
                                ELSE [dx |-> 1, dy |-> 1]]}

PlainGrid(nf) == [i \in 1..nf |-> [dx |-> 1, dy |-> 1]]

MkEnv(nPE, mpi, beamlog, hdr, deg, sf, fault) ==
    [nPE |-> nPE, mpiSwitch |-> mpi, nfiles |-> Len(beamlog),
     hdr |-> hdr,
     beamlog |-> beamlog, libDeconvDeg |-> deg, solverFails |-> sf,
     fault |-> fault, blank |-> {}]

Start(a, e, lg) ==
    /\ args = a
    /\ env = e
    /\ logs = lg
    /\ datadict = <<>>
    /\ nchans = 0
    /\ outfiles = [i \in 1..e.nfiles |->
                      [inits |-> <<>>, planes |-> <<>>, data |-> <<>>]]
    /\ solves = <<>>
    /\ guards = <<>>
    /\ pc = [r \in 0..(e.nPE - 1) |-> IF r = 0 THEN "args" ELSE "bar1"]
    /\ err = [r \in 0..(e.nPE - 1) |-> "none"]
    /\ arrived = [r \in 0..(e.nPE - 1) |-> 0]
    /\ sent = 0
    /\ rng = [r \in 0..(e.nPE - 1) |-> [start |-> 0, end |-> -1, next |-> 0]]
    /\ outfile_dict = [r \in 0..(e.nPE - 1) |-> {}]
    /\ outlist = [r \in 0..(e.nPE - 1) |-> [done |-> FALSE, imgs |-> {}]]
    /\ inputs = <<>>

\* one rank in a dry run, every combination of beams, grid, mode, conv_mode,
\* target, cutoff and library behaviour: the planner's cases
InitPlan ==
    \E nf \in 1..MaxFiles, nch \in 1..MaxChans :
    \E beamlog \in [1..nf -> [1..nch -> BeamVals]], hdr \in Grids(nf) :
    \E mode \in {"natural", "total"}, conv_mode \in {"robust", "scipy"} :
    \E target \in Targets, cutoff \in Cutoffs, deg \in BOOLEAN :
    \E sf \in [1..nch -> 0..2] :
        /\ FailsWhereRun(mode, cutoff, beamlog, nch, sf)
        /\ Start(MkArgs(mode, conv_mode, TRUE, FALSE, target, cutoff),
                 MkEnv(1, TRUE, beamlog, hdr, deg, sf, NoFault),
                 [i \in 1..nf |-> NoLog])

\* several ranks (or no MPI at all), dry runs and I/O faults, on plain beams
InitMPI ==
    \E nPE \in 1..MaxPE, mpi \in BOOLEAN :
    \E nf \in 1..MaxFiles, nch \in 1..MaxTaskChans :
    \E mode \in {"natural", "total"}, dryrun \in BOOLEAN :
    \E fault \in Faults(nf, nch) :
        /\ mpi \/ nPE = 1
        /\ Start(MkArgs(mode, "robust", dryrun, FALSE, NoTarget, NoCutoff),
                 MkEnv(nPE, mpi, [i \in 1..nf |-> [k \in 1..nch |-> Bm(5, 5)]],
                       PlainGrid(nf), TRUE, [n \in 1..nch |-> 0], fault),
                 [i \in 1..nf |-> NoLog])

\* --uselogs runs: every image's log is either missing or left by an earlier run
InitLogs ==
    \E nf \in 1..MaxFiles, nch \in 1..MaxChans :
    \E beamlog \in [1..nf -> [1..nch -> {Bm(0, 0), Bm(5, 5)}]] :
    \E mode \in {"natural", "total"}, conv_mode \in {"robust", "scipy"} :
    \E lg \in [1..nf -> {NoLog, OldLog(nch)}] :
        Start(MkArgs(mode, conv_mode, FALSE, TRUE, NoTarget, NoCutoff),
              MkEnv(1, TRUE, beamlog, PlainGrid(nf), TRUE, [n \in 1..nch |-> 0],
                    NoFault),
              lg)

\* the configurations main rejects, next to those it accepts: any mode
\* string, a partial or misplaced target, no files, a grid that is not
\* square, cubes of unequal length
InitConfig ==
    \E nPE \in 1..2, nf \in 0..MaxFiles :
    \E chans \in [1..nf -> 1..MaxChans] :
    \E hdr \in [1..nf -> {[dx |-> 1, dy |-> 1], [dx |-> 1, dy |-> 2]}] :
    \E mode \in {"natural", "total", "other"} :
    \E conv_mode \in {"robust", "bogus"}, uselogs \in BOOLEAN :
    \E given \in {"none", "part", "all"} :
        Start(MkArgs(mode, conv_mode, FALSE, uselogs,
                     [given |-> given, b |-> Bm(25, 25)], NoCutoff),
              MkEnv(nPE, TRUE,
                    [i \in 1..nf |-> [k \in 1..chans[i] |-> Bm(5, 5)]],
                    hdr, TRUE, [n \in 1..MaxChans |-> 0], NoFault),
              [i \in 1..nf |-> IF uselogs THEN OldLog(chans[i]) ELSE NoLog])

\* one cube of four channels with majors 10, 12, NaN and 15 arcsec (12 or
\* 14 in the second), minor 2 arcsec, and a cutoff of 14 arcsec; the
\* quantum of this family is one arcsec
ExampleCutoff == [given |-> TRUE, c2 |-> 196]

ExampleLogs ==
    {<<Bm(100, 4), mid, NaNBeam, Bm(225, 4)>> : mid \in {Bm(144, 4), Bm(196, 4)}}

InitExample ==
    \E beams \in ExampleLogs, mode \in {"natural", "total"} :
    \E cutoff \in {NoCutoff, ExampleCutoff} :
        /\ mode = "natural" => beams[2] = Bm(144, 4)
        /\ Start(MkArgs(mode, "robust", TRUE, FALSE, NoTarget, cutoff),
                 MkEnv(1, TRUE, <<beams>>, PlainGrid(1), FALSE,
                       [n \in 1..4 |-> 0], NoFault),
                 <<NoLog>>)

\* one rank that convolves: NaN beams, blank planes and every conv_mode
InitSmooth ==
    \E beamlog \in [1..1 -> [1..3 -> {NaNBeam, Bm(5, 5), Bm(16, 5)}]] :
    \E mode \in {"natural", "total"} :
    \E conv_mode \in {"robust", "scipy", "astropy", "astropy_fft"} :
    \E blank \in {{}, {<<1, 1>>}, {<<1, 2>>}} :
        Start(MkArgs(mode, conv_mode, FALSE, FALSE, NoTarget, NoCutoff),
              [MkEnv(1, TRUE, beamlog, PlainGrid(1), TRUE,
                     [n \in 1..3 |-> 0], NoFault) EXCEPT !.blank = blank],
              <<NoLog>>)

Init ==
    InitPlan \/ InitMPI \/ InitLogs \/ InitConfig \/ InitExample \/ InitSmooth

\* ------------------------------------------------------------ rank 0: plan
Fail(r, e) ==
    /\ pc' = [pc EXCEPT ![r] = "failed"]
    /\ err' = [err EXCEPT ![r] = e]

Goto(r, label) ==
    /\ pc' = [pc EXCEPT ![r] = label]
    /\ UNCHANGED err

\* main, "Parse args" to "No files found!": the checks made before any file
\* is opened.  mode == 'natural' and mode == 'total' is never true.
ArgsError(a, nf) ==
    IF a.mode = "natural" /\ a.mode = "total" THEN "BadMode"
    ELSE IF a.conv_mode \notin {"robust", "scipy", "astropy", "astropy_fft"}
         THEN "BadConvMode"
    ELSE IF a.target.given # "none" /\ a.mode # "total" THEN "TargetNotTotal"
    ELSE IF a.target.given = "part" THEN "PartialTarget"
    ELSE IF nf = 0 THEN "NoFiles"
    ELSE "none"

CheckArgs ==
    /\ pc[0] = "args"
    /\ IF ArgsError(args, env.nfiles) # "none"
       THEN Fail(0, ArgsError(args, env.nfiles))
       ELSE Goto(0, "makedata")
    /\ UNCHANGED <<args, env, datadict, nchans, logs, outfiles, solves, guards,
                   arrived, sent, rng, outfile_dict, outlist, inputs>>

\* makedata plus "Construct Beams objects": one record per cube
NewCube(i) ==
    [dx |-> env.hdr[i].dx, dy |-> env.hdr[i].dy,
     nchan |-> Len(env.beamlog[i]),
     beams |-> [u |-> "arcsec", v |-> env.beamlog[i]],
     mask |-> <<>>, commonbeams |-> EmptyBeams, convbeams |-> EmptyBeams,
     facs |-> <<>>, outfile |-> FALSE]

\* a makedata that is not followed by the channel-count check
MutMakedataError ==
    IF \E i \in Images : env.hdr[i].dx # env.hdr[i].dy THEN "GridNotSquare"
    ELSE "none"

\* the exception of makedata or of the channel-count check, if any
MakedataError ==
    IF \E i \in Images : env.hdr[i].dx # env.hdr[i].dy THEN "GridNotSquare"
    ELSE IF \E i \in Images : Len(env.beamlog[i]) # Len(env.beamlog[1])
         THEN "UnequalChannels"
    ELSE "none"

Makedata ==
    /\ pc[0] = "makedata"
    /\ IF MakedataError # "none"
       THEN /\ Fail(0, MakedataError)
            /\ UNCHANGED <<datadict, nchans>>
       ELSE /\ Goto(0, "masking")
            /\ datadict' = [i \in Images |-> NewCube(i)]
            /\ nchans' = Len(env.beamlog[1])
    /\ UNCHANGED <<args, env, logs, outfiles, solves, guards, arrived, sent,
                   rng, outfile_dict, outlist, inputs>>

ApplyMasking ==
    /\ pc[0] = "masking"
    /\ datadict' = Masking(nchans, args.cutoff, datadict)
    /\ Goto(0, "plan")
    /\ UNCHANGED <<args, env, nchans, logs, outfiles, solves, guards, arrived,
                   sent, rng, outfile_dict, outlist, inputs>>

ReadResult(r, lg) ==
    [err |-> r.err, dd |-> r.dd, logs |-> lg, tries |-> <<>>, guards |-> <<>>]

\* a planner that solves when a log is missing
MutPlanned ==
    IF args.uselogs /\ \A i \in 1..Len(logs) : logs[i].exists
    THEN ReadResult(Readlogs(datadict, logs), logs)
    ELSE Commonbeamer(datadict, logs, nchans, args)

\* if not args.uselogs: commonbeamer(...) else: readlogs(...)
Planned ==
    IF args.uselogs THEN ReadResult(Readlogs(datadict, logs), logs)
    ELSE Commonbeamer(datadict, logs, nchans, args)

PlanStep(p) ==
    /\ pc[0] = "plan"
    /\ datadict' = p.dd
    /\ logs' = p.logs
    /\ solves' = solves \o p.tries
    /\ guards' = guards \o p.guards
    /\ IF p.err # "none" THEN Fail(0, p.err) ELSE Goto(0, "bar1")
    /\ UNCHANGED <<args, env, nchans, outfiles, arrived, sent, rng,
                   outfile_dict, outlist, inputs>>

Plan == PlanStep(Planned)

\* ------------------------------------------------------------- every rank
\* BlockRange with the remainder forgotten in the start of the later ranks
MutBlockRange(nPE, myPE, dims) ==
    LET count == dims \div nPE
        rem == dims % nPE
    IN  IF myPE < rem
        THEN [start |-> myPE * (count + 1), end |-> myPE * (count + 1) + count]
        ELSE [start |-> myPE * count, end |-> myPE * count + (count - 1)]

\* count = dims // nPE; rem = dims % nPE; the first rem ranks get count + 1
BlockRange(nPE, myPE, dims) ==
    LET count == dims \div nPE
        rem == dims % nPE
    IN  IF myPE < rem
        THEN [start |-> myPE * (count + 1), end |-> myPE * (count + 1) + count]
        ELSE [start |-> myPE * count + rem,
              end |-> myPE * count + rem + (count - 1)]

\* a split that gives every rank the image of its own number, whatever nPE
MutInitRange(nPE, myPE, dims) == [start |-> myPE, end |-> myPE]

\* the split of the images for initfiles: if nPE > dims: my_start = my_end = myPE
InitRange(nPE, myPE, dims) ==
    IF nPE > dims THEN [start |-> myPE, end |-> myPE]
    ELSE BlockRange(nPE, myPE, dims)

\* the split of the (image, channel) tasks for the convolution
ConvRange(nPE, myPE, dims) == BlockRange(nPE, myPE, dims)

\* the 0-based indices of lst[my_start:my_end+1] for a list of length len
Slice(range, len) == {k \in 0..(len - 1) : range.start <= k /\ k <= range.end}

BarrierNo(label) ==
    CASE label \in {"bar1", "wait1"} -> 1
      [] label \in {"bar2", "wait2"} -> 2
      [] label \in {"bar3", "wait3"} -> 3

WaitLabel(k) == CASE k = 1 -> "wait1" [] k = 2 -> "wait2" [] k = 3 -> "wait3"

\* where a rank goes after barrier k; a dry run skips everything after the first
AfterBarrier(k) ==
    CASE k = 1 -> IF args.dryrun THEN "done" ELSE "bcast1"
      [] k = 2 -> "assemble"
      [] k = 3 -> "bcast2"

\* a barrier that lets every rank through at once
MutBarrierOpen(k) == TRUE

\* comm.Barrier() returns once every rank has entered it
BarrierOpen(k) == \A q \in Ranks : arrived[q] >= k

\* if mpiSwitch: comm.Barrier(), entered
BarrierEnter(r) ==
    /\ pc[r] \in {"bar1", "bar2", "bar3"}
    /\ IF env.mpiSwitch
       THEN /\ arrived' = [arrived EXCEPT ![r] = BarrierNo(pc[r])]
            /\ Goto(r, WaitLabel(BarrierNo(pc[r])))
       ELSE /\ Goto(r, AfterBarrier(BarrierNo(pc[r])))
            /\ UNCHANGED arrived
    /\ UNCHANGED <<args, env, datadict, nchans, logs, outfiles, solves, guards,
                   sent, rng, outfile_dict, outlist, inputs>>

BarrierLeave(r) ==
    /\ pc[r] \in {"wait1", "wait2", "wait3"}
    /\ BarrierOpen(BarrierNo(pc[r]))
    /\ Goto(r, AfterBarrier(BarrierNo(pc[r])))
    /\ UNCHANGED <<args, env, datadict, nchans, logs, outfiles, solves, guards,
                   arrived, sent, rng, outfile_dict, outlist, inputs>>

\* a broadcast whose receivers wait for a round the root has not reached
MutBcastReady(r, k) == r = 0 \/ ~env.mpiSwitch \/ sent > k

\* comm.bcast(..., root=0), round k: the root sends, the others wait for it
BcastReady(r, k) == r = 0 \/ ~env.mpiSwitch \/ sent >= k

\* files, datadict, nchans are broadcast (every rank then reads rank 0's
\* values, which rank 0 does not change while they are in use) and the
\* images are split over the ranks
Bcast1(r) ==
    /\ pc[r] = "bcast1"
    /\ BcastReady(r, 1)
    /\ sent' = IF r = 0 /\ env.mpiSwitch THEN 1 ELSE sent
    /\ rng' = [rng EXCEPT ![r] =
                  [start |-> InitRange(env.nPE, r, Len(datadict)).start,
                   end |-> InitRange(env.nPE, r, Len(datadict)).end,
                   next |-> InitRange(env.nPE, r, Len(datadict)).start]]
    /\ Goto(r, "init")
    /\ UNCHANGED <<args, env, datadict, nchans, logs, outfiles, solves, guards,
                   arrived, outfile_dict, outlist, inputs>>

\* an output plane: what it holds and the factors it was multiplied by
NoPlane == [kind |-> "empty", facs |-> <<>>]

\* the factor returned by convolve_uv.convolve(image, oldbeam, newbeam, dx, dy)
BackendFac(oldbeam, newbeam, dx, dy) ==
    [by |-> "backend", val |-> GaussFactor(newbeam, oldbeam, dx, dy)]

\* a smooth that scales the robust plane by the planner's factor as well
MutSmooth(image, conbeam, sfactor, backend, conv_mode) ==
    IF conbeam.b.nan THEN [kind |-> "nan", facs |-> <<>>]
    ELSE IF image = "allnan" THEN [kind |-> "unchanged", facs |-> <<>>]
    ELSE IF conv_mode = "robust"
         THEN [kind |-> "convolved",
               facs |-> <<[by |-> "sfactor", val |-> sfactor], backend>>]
    ELSE [kind |-> "convolved",
          facs |-> <<[by |-> "sfactor", val |-> sfactor]>>]

\* smooth(image, dx, dy, oldbeam, newbeam, conbeam, sfactor, conv_mode):
\* image * nan for a NaN convolving beam, the image itself if it is all NaN,
\* else newim * fac with fac = sfactor, or the backend's under 'robust'
Smooth(image, conbeam, sfactor, backend, conv_mode) ==
    IF conbeam.b.nan THEN [kind |-> "nan", facs |-> <<>>]
    ELSE IF image = "allnan" THEN [kind |-> "unchanged", facs |-> <<>>]
    ELSE IF conv_mode = "robust"
         THEN [kind |-> "convolved", facs |-> <<backend>>]
    ELSE [kind |-> "convolved",
          facs |-> <<[by |-> "sfactor", val |-> sfactor]>>]

\* cube.unmasked_data[idx]: the input plane, entirely NaN or holding data
PlaneOf(i, ch) == IF <<i, ch>> \in env.blank THEN "allnan" ELSE "data"

\* worker(idx, cubedict, conv_mode)
Worker(i, ch, d, conv_mode) ==
    Smooth(PlaneOf(i, ch), At(d.convbeams, ch), d.facs[ch],
           BackendFac(ToArcsec(At(d.beams, ch)),
                      ToArcsec(At(d.commonbeams, ch)), d.dx, d.dy),
           conv_mode)

\* initfiles builds new_hdulist under mode == 'natural' and under
\* mode == 'total' only; with another mode its use in writeto raises
InitfilesError(mode) ==
    IF mode \notin {"natural", "total"} THEN "UnboundLocalError:new_hdulist"
    ELSE "none"

\* initfiles on the next image of inputs[my_start:my_end+1]
InitFile(r) ==
    /\ pc[r] = "init"
    /\ rng[r].next \in Slice(rng[r], Len(datadict))
    /\ LET i == rng[r].next + 1
       IN  IF env.fault = [phase |-> "init", idx |-> i]
           THEN /\ Fail(r, "IOError")
                /\ UNCHANGED <<outfiles, outfile_dict, rng>>
           ELSE IF InitfilesError(args.mode) # "none"
           THEN /\ Fail(r, InitfilesError(args.mode))
                /\ UNCHANGED <<outfiles, outfile_dict, rng>>
           ELSE /\ outfiles' = [outfiles EXCEPT ![i] =
                       [inits |-> Append(@.inits, r),
                        planes |-> [ch \in 1..nchans |-> 0],
                        data |-> [ch \in 1..nchans |-> NoPlane]]]
                /\ outfile_dict' = [outfile_dict EXCEPT ![r] = @ \cup {i}]
                /\ rng' = [rng EXCEPT ![r].next = @ + 1]
                /\ Goto(r, "init")
    /\ UNCHANGED <<args, env, datadict, nchans, logs, solves, guards, arrived,
                   sent, outlist, inputs>>

\* outlist = comm.gather(outfile_dict, root=0): the root returns once every
\* rank has contributed; without MPI there is no gather and no outlist
Gather(r) ==
    /\ pc[r] = "init"
    /\ rng[r].next \notin Slice(rng[r], Len(datadict))
    /\ r = 0 /\ env.mpiSwitch => \A q \in Ranks \ {0} : outlist[q].done
    /\ outlist' = IF env.mpiSwitch
                  THEN [outlist EXCEPT ![r] =
                           [done |-> TRUE, imgs |-> outfile_dict[r]]]
                  ELSE outlist
    /\ Goto(r, "bar2")
    /\ UNCHANGED <<args, env, datadict, nchans, logs, outfiles, solves, guards,
                   arrived, sent, rng, outfile_dict, inputs>>

\* the (key, chan) list built by rank 0
TaskList(nf, nch) ==
    [t \in 1..(nf * nch) |-> <<((t - 1) \div nch) + 1, ((t - 1) % nch) + 1>>]

\* "Conver list to dict and save to main dict"
AssembleError ==
    IF ~env.mpiSwitch THEN "UnboundLocalError:outlist"
    ELSE IF \E i \in 1..Len(datadict) :
               i \notin UNION {outlist[q].imgs : q \in Ranks}
         THEN "KeyError"
    ELSE "none"

Assemble(r) ==
    /\ pc[r] = "assemble"
    /\ IF r = 0
       THEN IF AssembleError # "none"
            THEN /\ Fail(0, AssembleError)
                 /\ UNCHANGED <<datadict, inputs>>
            ELSE /\ datadict' = [i \in 1..Len(datadict) |->
                                    [datadict[i] EXCEPT !.outfile = TRUE]]
                 /\ inputs' = TaskList(Len(datadict), nchans)
                 /\ Goto(0, "bar3")
       ELSE /\ Goto(r, "bar3")
            /\ UNCHANGED <<datadict, inputs>>
    /\ UNCHANGED <<args, env, nchans, logs, outfiles, solves, guards, arrived,
                   sent, rng, outfile_dict, outlist>>

\* inputs and datadict are broadcast and the tasks are split over the ranks
Bcast2(r) ==
    /\ pc[r] = "bcast2"
    /\ BcastReady(r, 2)
    /\ sent' = IF r = 0 /\ env.mpiSwitch THEN 2 ELSE sent
    /\ rng' = [rng EXCEPT ![r] =
                  [start |-> ConvRange(env.nPE, r, env.nfiles * nchans).start,
                   end |-> ConvRange(env.nPE, r, env.nfiles * nchans).end,
                   next |-> ConvRange(env.nPE, r, env.nfiles * nchans).start]]
    /\ Goto(r, "conv")
    /\ UNCHANGED <<args, env, datadict, nchans, logs, outfiles, solves, guards,
                   arrived, outfile_dict, outlist, inputs>>

\* worker(chan, datadict[key]) and the write of the plane into the output
ConvTask(r) ==
    /\ pc[r] = "conv"
    /\ rng[r].next \in Slice(rng[r], Len(inputs))
    /\ LET t == rng[r].next + 1
           i == inputs[t][1]
           ch == inputs[t][2]
       IN  IF env.fault = [phase |-> "conv", idx |-> t]
           THEN /\ Fail(r, "IOError")
                /\ UNCHANGED <<outfiles, rng>>
           ELSE /\ outfiles' = [outfiles EXCEPT
                                   ![i].planes[ch] = @ + 1,
                                   ![i].data[ch] =
                                       Worker(i, ch, datadict[i],
                                              args.conv_mode)]
                /\ rng' = [rng EXCEPT ![r].next = @ + 1]
                /\ Goto(r, "conv")
    /\ UNCHANGED <<args, env, datadict, nchans, logs, solves, guards, arrived,
                   sent, outfile_dict, outlist, inputs>>

\* print('Done!')
Finish(r) ==
    /\ pc[r] = "conv"
    /\ rng[r].next \notin Slice(rng[r], Len(inputs))
    /\ Goto(r, "done")
    /\ UNCHANGED <<args, env, datadict, nchans, logs, outfiles, solves, guards,
                   arrived, sent, rng, outfile_dict, outlist, inputs>>

Next ==
    \/ CheckArgs
    \/ Makedata
    \/ ApplyMasking
    \/ Plan
    \/ \E r \in Ranks : BarrierEnter(r)
    \/ \E r \in Ranks : BarrierLeave(r)
    \/ \E r \in Ranks : Bcast1(r)
    \/ \E r \in Ranks : InitFile(r)
    \/ \E r \in Ranks : Gather(r)
    \/ \E r \in Ranks : Assemble(r)
    \/ \E r \in Ranks : Bcast2(r)
    \/ \E r \in Ranks : ConvTask(r)
    \/ \E r \in Ranks : Finish(r)

Spec == Init /\ [][Next]_vars

\* the steps of rank r from the first barrier on: every rank is a process of
\* its own, which goes on running main as long as it is not blocked in a
\* collective
RankStep(r) ==
    /\ r \in Ranks
    /\ \/ BarrierEnter(r)
       \/ BarrierLeave(r)
       \/ Bcast1(r)
       \/ InitFile(r)
       \/ Gather(r)
       \/ Assemble(r)
       \/ Bcast2(r)
       \/ ConvTask(r)
       \/ Finish(r)

\* the runs on several ranks, each rank being scheduled as long as it can step
FairSpec ==
    InitMPI /\ [][Next]_vars /\ \A r \in 0..(MaxPE - 1) : WF_vars(RankStep(r))

\* ------------------------------------------------------------------- claims
ConfigErrors ==
    {"BadMode", "BadConvMode", "TargetNotTotal", "PartialTarget", "NoFiles",
     "GridNotSquare", "UnequalChannels"}

PlanErrors ==
    {"ValueError", "BeamError", "DeconvolveError", "Undersample", "MissingLog",
     "UnboundLocalError:commonbeams"}

\* rank 0 has made the call of commonbeamer or readlogs
PlanRan ==
    /\ pc[0] \notin {"args", "makedata", "masking", "plan"}
    /\ err[0] \notin ConfigErrors

\* ... and the call returned
PlanOk == PlanRan /\ err[0] \notin PlanErrors

PlanFailed == PlanRan /\ err[0] \in PlanErrors

\* how far along main a label is
Stage(label) ==
    CASE label \in {"args", "makedata", "masking", "plan"} -> 0
      [] label = "bar1" -> 1
      [] label = "wait1" -> 2
      [] label = "bcast1" -> 3
      [] label = "init" -> 4
      [] label = "bar2" -> 5
      [] label = "wait2" -> 6
      [] label = "assemble" -> 7
      [] label = "bar3" -> 8
      [] label = "wait3" -> 9
      [] label = "bcast2" -> 10
      [] label = "conv" -> 11
      [] label = "done" -> IF args.dryrun THEN 3 ELSE 12
      [] label = "failed" -> 0

\* the ranks that hold their range of convolution tasks
ConvRanks == {r \in Ranks : pc[r] \in {"conv", "done"} /\ ~args.dryrun}

Tasks == env.nfiles * nchans

RangeSize(r) == rng[r].end - rng[r].start + 1

\* C1: the ranges [my_start, my_end] of the convolution phase are contiguous
\* and pairwise disjoint, start at task 0 and end at task T-1, and the first
\* (T mod nPE) ranks hold one task more than the others
C1_Partition ==
    /\ \A r \in ConvRanks :
          /\ RangeSize(r) = (Tasks \div env.nPE)
                            + (IF r < Tasks % env.nPE THEN 1 ELSE 0)
          /\ r = 0 => rng[r].start = 0
          /\ r = env.nPE - 1 => rng[r].end = Tasks - 1
          /\ \A q \in ConvRanks :
                /\ q = r + 1 => rng[q].start = rng[r].end + 1
                /\ q # r => Slice(rng[q], Tasks) \cap Slice(rng[r], Tasks) = {}
    /\ ConvRanks = Ranks =>
          UNION {Slice(rng[r], Tasks) : r \in Ranks} = 0..(Tasks - 1)

\* ten tasks over three ranks, split 4, 3, 3
C1_Witness ==
    /\ env.nPE = 3
    /\ Tasks = 10
    /\ ConvRanks = Ranks
    /\ RangeSize(0) = 4 /\ RangeSize(1) = 3 /\ RangeSize(2) = 3

InitStarted ==
    \/ \E r \in Ranks : pc[r] = "init"
    \/ \E i \in Images : outfiles[i].inits # <<>>

\* the plan is complete: every image has its common beams, convolving beams
\* and factors
PlanFinished ==
    /\ PlanOk
    /\ Len(datadict) = env.nfiles
    /\ \A i \in 1..Len(datadict) :
          /\ Len(datadict[i].commonbeams.v) = nchans
          /\ Len(datadict[i].convbeams.v) = nchans
          /\ Len(datadict[i].facs) = nchans

ConvStarted ==
    \/ \E r \in Ranks : pc[r] = "conv"
    \/ \E i \in Images : \E ch \in 1..Len(outfiles[i].planes) :
          outfiles[i].planes[ch] > 0

\* rank q has left the initialisation loop with all of its images initialised
InitDone(q) ==
    /\ Stage(pc[q]) > 4 \/ (pc[q] = "failed" /\ PlanOk)
    /\ outfile_dict[q] =
          {k + 1 : k \in Slice(InitRange(env.nPE, q, env.nfiles), env.nfiles)}
    /\ \A i \in outfile_dict[q] : outfiles[i].inits # <<>>

\* C2: in an MPI run no rank is past a barrier before every rank has entered
\* it; no rank starts to initialise an output file before rank 0 has finished
\* planning; no plane is convolved or written before every rank has
\* initialised all of its output files
C2_Phases ==
    env.mpiSwitch =>
        /\ \A r \in Ranks : \A k \in 1..3 :
              (pc[r] # "failed" /\ Stage(pc[r]) > Stage(WaitLabel(k))) =>
                  \A q \in Ranks : arrived[q] >= k
        /\ InitStarted => PlanFinished
        /\ ConvStarted => \A q \in Ranks : InitDone(q)

\* three ranks, and a plane has been written
C2_Witness ==
    /\ env.mpiSwitch
    /\ env.nPE = 3
    /\ \E i \in Images : \E ch \in 1..Len(outfiles[i].planes) :
          outfiles[i].planes[ch] > 0

\* C3 (as claimed): once a rank has ended in an exception, no other rank
\* writes another plane
C3_NoWriteAfterFailure ==
    [][(\E r \in Ranks : pc[r] = "failed") =>
          \A i \in Images : \A ch \in 1..Len(outfiles[i].planes) :
              outfiles'[i].planes[ch] = outfiles[i].planes[ch]]_vars

Cubes == 1..Len(datadict)

Chans == 1..nchans

\* the beam of image i at channel n enters no solve: masked, or NaN in the beamlog
EffNaN(i, n) == datadict[i].mask[n] \/ datadict[i].beams.v[n].nan

\* the physical beam of image i at channel n, as read from the beamlog
InBeam(i, n) == env.beamlog[i][n]

AllNaNChannel(n) == \A i \in Cubes : EffNaN(i, n)

AllNaN == \A n \in Chans : AllNaNChannel(n)

\* every product of image i at channel n is NaN
NaNProducts(i, n) ==
    /\ n <= Len(datadict[i].commonbeams.v) /\ datadict[i].commonbeams.v[n].nan
    /\ n <= Len(datadict[i].convbeams.v) /\ datadict[i].convbeams.v[n].nan
    /\ n <= Len(datadict[i].facs) /\ datadict[i].facs[n].nan

Solving == PlanRan /\ ~args.uselogs

\* C4 (as claimed): commonbeamer raises nothing when every beam of the run is
\* NaN, and when it returns every channel whose solve saw only NaN beams (one
\* channel in natural mode, the flattened set in total mode) has a NaN common
\* beam, a NaN convolving beam and a NaN factor in every image
C4_AllNaNNoError ==
    Solving =>
        /\ AllNaN => PlanOk
        /\ PlanOk => \A n \in Chans :
              (IF args.mode = "natural" THEN AllNaNChannel(n) ELSE AllNaN) =>
                  \A i \in Cubes : NaNProducts(i, n)

\* attempt k of the history is a retry: the attempt before it is of the same solve
IsRetry(k) == k > 1 /\ solves[k - 1].chan = solves[k].chan

\* attempt k did not converge (an empty beam set is no search at all)
NoConverge(k) == ~solves[k].ok /\ Len(solves[k].beams) > 0

LastOf(k) == k = Len(solves) \/ solves[k + 1].chan # solves[k].chan

NothingStored ==
    /\ \A i \in Cubes : datadict[i].commonbeams = EmptyBeams
    /\ \A i \in Images : ~logs[i].exists

\* the numbers commonbeamer holds for solve n: channel n in natural mode,
\* every channel in total mode
StoredFor(n, b) ==
    \A i \in Cubes : \A m \in Chans :
        (args.mode = "total" \/ m = n) => datadict[i].commonbeams.v[m] = b

UnderAt(n) == \E k \in 1..Len(guards) : guards[k].chan = n /\ guards[k].under

\* C5: every solve makes one call with args.tolerance and, only if that call
\* did not converge, exactly one more on the same non-NaN beams with a tenth of
\* the tolerance and the same nsamps and epsilon; a retry that fails ends
\* commonbeamer with the BeamError and nothing stored; the beam of a retry
\* that succeeds is the one rounded into the common beam (or, where the
\* Nyquist check replaces it, convolved with the Nyquist beam and rounded)
C5_RetryOnce ==
    /\ \A k \in 1..Len(solves) :
          /\ solves[k].nsamps = Nsamps /\ solves[k].epsilon = Epsilon
          /\ \A j \in 1..Len(solves[k].beams) : ~solves[k].beams[j].nan
          /\ Cardinality({j \in 1..Len(solves) : solves[j].chan = solves[k].chan}) <= 2
          /\ IF IsRetry(k)
             THEN /\ NoConverge(k - 1)
                  /\ 10 * solves[k].tolerance = solves[k - 1].tolerance
                  /\ solves[k].beams = solves[k - 1].beams
                  /\ LastOf(k)
             ELSE /\ solves[k].tolerance = Tolerance
                  /\ NoConverge(k) => k < Len(solves) /\ IsRetry(k + 1)
                  /\ ~NoConverge(k) => LastOf(k)
          /\ (IsRetry(k) /\ ~solves[k].ok) =>
                /\ k = Len(solves)
                /\ pc[0] = "failed" /\ err[0] = "BeamError"
                /\ NothingStored
          /\ (IsRetry(k) /\ solves[k].ok /\ PlanOk /\ args.target.given = "none") =>
                StoredFor(solves[k].chan,
                          IF UnderAt(solves[k].chan)
                          THEN RoundUp(Convolve(RoundUp(solves[k].beam).b,
                                                Bm(4 * GuardGrid(datadict) * GuardGrid(datadict),
                                                   4 * GuardGrid(datadict) * GuardGrid(datadict)))).b
                          ELSE RoundUp(solves[k].beam).b)

\* a search that failed, a retry that converged, and commonbeamer returned
C5_Witness ==
    /\ PlanOk
    /\ \E k \in 1..Len(solves) :
          /\ IsRetry(k) /\ NoConverge(k - 1) /\ solves[k].ok
          /\ args.target.given = "none"

TargetRun == Solving /\ args.mode = "total" /\ args.target.given = "all"

GridSq == GuardGrid(datadict) * GuardGrid(datadict)

\* the target deconvolved by some non-NaN input has a minor axis of less than
\* two pixels
TargetUnder ==
    \E i \in Cubes : \E n \in Chans :
        /\ ~EffNaN(i, n)
        /\ Dominates(args.target.b, InBeam(i, n))
        /\ Min2(args.target.b.x - InBeam(i, n).x,
                args.target.b.y - InBeam(i, n).y) < 4 * GridSq

\* every non-NaN input fits into the target
TargetFits ==
    \A i \in Cubes : \A n \in Chans :
        ~EffNaN(i, n) => Dominates(args.target.b, InBeam(i, n))

SolveOk == solves # <<>> /\ solves[Len(solves)].ok

TargetStored ==
    \A i \in Cubes :
        /\ datadict[i].commonbeams.u = "arcsec"
        /\ Len(datadict[i].commonbeams.v) = nchans
        /\ \A n \in Chans : datadict[i].commonbeams.v[n] = args.target.b

SolvedWith(n, j, m) == ~EffNaN(j, m) /\ (args.mode = "total" \/ m = n)

\* the common beam of image i at channel n, deconvolved by input (j, m), has
\* a minor axis of at least two pixels
Sampled(i, n, j, m) ==
    LET c == ToArcsec(At(datadict[i].commonbeams, n))
    IN  /\ ~c.nan
        /\ Dominates(c, InBeam(j, m))
        /\ Min2(c.x - InBeam(j, m).x, c.y - InBeam(j, m).y) >= 4 * GridSq

EverySampled ==
    \A i \in Cubes : \A n \in Chans : \A j \in Cubes : \A m \in Chans :
        SolvedWith(n, j, m) => Sampled(i, n, j, m)

C8_TargetOverrides ==
    TargetRun =>
        /\ solves # <<>>
        /\ ~SolveOk => /\ pc[0] = "failed"
                       /\ err[0] \in {"BeamError", "ValueError"}
                       /\ NothingStored
        /\ PlanOk => TargetStored
        /\ \A i \in Cubes :
              datadict[i].commonbeams # EmptyBeams =>
                  \A n \in 1..Len(datadict[i].commonbeams.v) :
                      datadict[i].commonbeams.v[n] = args.target.b

\* commonbeamer returned with a target that is not the rounded solved beam
C8_Witness ==
    /\ TargetRun /\ PlanOk /\ SolveOk
    /\ RoundUp(solves[Len(solves)].beam).b # args.target.b
    /\ Len(datadict) = 2 /\ nchans = 2

SameBeams(a, b) == Len(a.v) = Len(b.v) /\ Phys(a) = Phys(b)

\* C9 (as claimed): the logs commonbeamer wrote, read back by readlogs, give
\* every image the same common beams, convolving beams and factors as
\* commonbeamer stored
C9_RoundTrip ==
    (Solving /\ PlanOk) =>
        /\ Readlogs(datadict, logs).err = "none"
        /\ \A i \in Cubes :
              /\ SameBeams(Readlogs(datadict, logs).dd[i].commonbeams,
                           datadict[i].commonbeams)
              /\ SameBeams(Readlogs(datadict, logs).dd[i].convbeams,
                           datadict[i].convbeams)
              /\ Readlogs(datadict, logs).dd[i].facs = datadict[i].facs

LogsAsFound ==
    \A i \in Images : logs[i] \in {NoLog, OldLog(Len(env.beamlog[i]))}

FromLog(i) ==
    /\ datadict[i].commonbeams = [u |-> "arcsec", v |-> logs[i].target]
    /\ datadict[i].convbeams = [u |-> "arcsec", v |-> logs[i].conv]
    /\ datadict[i].facs = logs[i].fac

\* C10: with uselogs no call of the solver and no Nyquist check is ever made
\* and no log is written; if some image's log is missing the run ends with
\* the missing-log error, and otherwise the common beams, convolving beams and
\* factors of every image are the columns of its log, taken in arcsec
C10_Replay ==
    args.uselogs =>
        /\ solves = <<>> /\ guards = <<>>
        /\ LogsAsFound
        /\ PlanRan =>
              IF \E i \in Images : ~logs[i].exists
              THEN pc[0] = "failed" /\ err[0] = "MissingLog"
              ELSE PlanOk /\ \A i \in Cubes : FromLog(i)
        /\ \A i \in Cubes :
              datadict[i].commonbeams # EmptyBeams => logs[i].exists /\ FromLog(i)

\* two images replayed from their logs, with beams a solve would have used
C10_Witness ==
    /\ args.uselogs /\ PlanOk
    /\ Len(datadict) = 2
    /\ \A i \in Cubes : FromLog(i) /\ ~EffNaN(i, 1)

\* ------------------------------------------------------------ configuration
\* the planning variables are as construction left them
LogsAsFoundAll == LogsAsFound /\ (~args.uselogs => \A i \in Images : ~logs[i].exists)

NothingPlanned ==
    /\ \A i \in 1..Len(datadict) : \A k \in 1..Len(datadict[i].mask) :
           ~datadict[i].mask[k]
    /\ solves = <<>> /\ guards = <<>>
    /\ LogsAsFoundAll
    /\ \A i \in Images : outfiles[i].inits = <<>>

BadMode == args.mode \notin {"natural", "total"}

\* the errors raised before the first file is opened
ArgErrors ==
    {"BadMode", "BadConvMode", "TargetNotTotal", "PartialTarget", "NoFiles"}

\* C11 (as claimed): a mode that is neither natural nor total ends the run
\* with a configuration error of the argument checks, before any input file
\* is read, any beam is masked or solved, and any log or output file is
\* written
C11_BadModeRejected ==
    BadMode =>
        /\ pc[0] \in {"args", "failed"}
        /\ pc[0] = "failed" => err[0] \in ArgErrors
        /\ datadict = <<>>
        /\ NothingPlanned

\* the inputs of the checks named by C12
Rejected ==
    \/ args.target.given # "none" /\ args.mode = "natural"
    \/ args.target.given = "part"
    \/ env.nfiles = 0
    \/ \E i \in Images : env.hdr[i].dx # env.hdr[i].dy
    \/ \E i \in Images : Len(env.beamlog[i]) # Len(env.beamlog[1])

\* C12: a target given in natural mode, a partial target, an empty file list,
\* a grid that is not square, or cubes of unequal channel counts make rank 0
\* raise a configuration error in the argument checks or in makedata: nothing
\* is masked or solved, and no log and no output file is written
C12_Rejected ==
    Rejected =>
        /\ pc[0] \in {"args", "makedata", "failed"}
        /\ pc[0] = "failed" => err[0] \in ConfigErrors
        /\ datadict = <<>>
        /\ NothingPlanned

\* two cubes of different length were read and the count check raised
C12_Witness ==
    /\ Rejected
    /\ pc[0] = "failed" /\ err[0] = "UnequalChannels"
    /\ env.nfiles = 2 /\ env.nPE = 2
    /\ args.mode = "total" /\ args.target.given = "all"

\* ------------------------------------------------------------------ masking
\* masking has been applied to the cubes made by makedata
Masked == Len(datadict) > 0 /\ pc[0] # "masking"

\* C13: after masking the mask of every cube has nchans entries, each the
\* union of the cutoff test (major above the cutoff) and the null-beam test
\* on the beam read from the beamlog; applying the two tests in the other
\* order gives the same mask, and so does calling masking a second time
C13_MaskUnion ==
    Masked =>
        \A i \in Cubes :
            /\ Len(datadict[i].mask) = nchans
            /\ \A k \in Chans :
                   datadict[i].mask[k] <=>
                       \/ CutMask(InBeam(i, k), args.cutoff)
                       \/ NullMask(InBeam(i, k))
            /\ pc[0] = "plan" =>
                   /\ CutStep(args.cutoff,
                              NullStep(ResetMask(nchans, datadict[i])))
                      = datadict[i]
                   /\ Masking(nchans, args.cutoff, datadict)[i] = datadict[i]

\* masking has just run with a cutoff on beams of which one is over the
\* cutoff, one is the null beam and one is neither
C13_Witness ==
    /\ pc[0] = "plan" /\ args.cutoff.given
    /\ \E i \in Cubes, k \in Chans :
           CutMask(InBeam(i, k), args.cutoff) /\ datadict[i].mask[k]
    /\ \E i \in Cubes, k \in Chans :
           NullMask(InBeam(i, k)) /\ datadict[i].mask[k]
    /\ \E i \in Cubes, k \in Chans :
           ~InBeam(i, k).nan /\ ~datadict[i].mask[k]

\* ------------------------------------------------------- the cutoff example
Major(b) == Max2(b.x, b.y)

\* the run on majors 10, 12 (or 14), NaN, 15 arcsec with cutoff 14 arcsec
ExampleRun ==
    /\ env.nfiles = 1 /\ env.beamlog[1] \in ExampleLogs
    /\ args.cutoff = ExampleCutoff

\* the convolving beam and the factor of image i at channel k are NaN
NaNConv(i, k) ==
    /\ k <= Len(datadict[i].convbeams.v) /\ datadict[i].convbeams.v[k].nan
    /\ k <= Len(datadict[i].facs) /\ datadict[i].facs[k].nan

\* what the cutoff does to entries that are not NaN, and what the planner
\* stores for the masked ones
CutoffRule ==
    /\ Masked /\ args.cutoff.given =>
           \A i \in Cubes, k \in Chans :
               ~InBeam(i, k).nan /\ ~NullMask(InBeam(i, k)) =>
                   (datadict[i].mask[k] <=> Major(InBeam(i, k)) > args.cutoff.c2)
    /\ PlanOk /\ Solving =>
           \A i \in Cubes, k \in Chans : datadict[i].mask[k] => NaNConv(i, k)

\* C14 (as claimed): with a cutoff, an entry that is already NaN is masked, an
\* entry with its major above the cutoff is masked and one at or below it is
\* not: majors [10, 12, NaN, 15] arcsec and cutoff 14 arcsec give the mask
\* [F, F, T, T], and the masked channels get a NaN convolving beam and factor
C14_NaNMasked ==
    /\ CutoffRule
    /\ Masked /\ args.cutoff.given =>
           \A i \in Cubes, k \in Chans : InBeam(i, k).nan => datadict[i].mask[k]
    /\ Masked /\ ExampleRun => datadict[1].mask = <<FALSE, FALSE, TRUE, TRUE>>

\* C14 (amended): with a cutoff, an entry with its major above the cutoff is
\* masked and one at or below it is not; an entry that is already NaN is not
\* masked, yet its convolving beam and factor are NaN all the same: majors
\* [10, 12, NaN, 15] arcsec and cutoff 14 arcsec give the mask [F, F, F, T],
\* and the masked channels get a NaN convolving beam and factor
C14_CutoffMask ==
    /\ CutoffRule
    /\ Masked /\ args.cutoff.given =>
           \A i \in Cubes, k \in Chans : InBeam(i, k).nan => ~datadict[i].mask[k]
    /\ PlanOk /\ Solving =>
           \A i \in Cubes, k \in Chans : InBeam(i, k).nan => NaNConv(i, k)
    /\ Masked /\ ExampleRun => datadict[1].mask = <<FALSE, FALSE, FALSE, TRUE>>

\* the planner returned on the example in natural mode
C14_Witness ==
    /\ ExampleRun /\ env.beamlog[1][2] = Bm(144, 4)
    /\ args.mode = "natural"
    /\ PlanOk
    /\ NaNConv(1, 4) /\ ~datadict[1].convbeams.v[2].nan

\* --------------------------------------------------- natural-mode guard
\* the rounded beam of the solve of channel n: its last attempt, rounded up
RoundedOf(n) ==
    RoundUp(solves[CHOOSE k \in 1..Len(solves) :
                       solves[k].chan = n /\ LastOf(k)].beam).b

\* some non-NaN input of channel n leaves the rounded beam a convolving beam
\* with a minor axis of less than two pixels
UnderSampled(n) ==
    \E j \in Cubes :
        /\ ~EffNaN(j, n)
        /\ Min2(RoundedOf(n).x - InBeam(j, n).x,
                RoundedOf(n).y - InBeam(j, n).y) < 4 * GridSq

\* the rounded convolution of the candidate with the (2*grid, 2*grid, 0) beam
NyquistOf(n) ==
    RoundUp(Convolve(RoundedOf(n), Bm(4 * GridSq, 4 * GridSq))).b

NaturalRun == Solving /\ args.mode = "natural"

\* C15: in natural mode the check is never fatal, and whenever commonbeamer
\* returns, each channel that was solved holds, in every image, its rounded
\* solved beam, unless the check ran on it and found a non-NaN input of that
\* channel with a sample count below 2: then, and only then, the channel was
\* reported and holds the rounded convolution of its rounded beam with the
\* (2*grid, 2*grid, 0) beam
C15_NaturalGuard ==
    NaturalRun =>
        /\ err[0] # "Undersample"
        /\ PlanOk =>
               \A n \in Chans :
                   ~AllNaNChannel(n) =>
                       /\ UnderAt(n) <=>
                              (args.conv_mode # "robust" /\ UnderSampled(n))
                       /\ StoredFor(n, IF UnderAt(n) THEN NyquistOf(n)
                                       ELSE RoundedOf(n))

\* commonbeamer returned with one channel replaced by its Nyquist beam and
\* another channel left at its rounded beam
C15_Witness ==
    /\ NaturalRun /\ PlanOk /\ args.conv_mode # "robust"
    /\ \E n \in Chans, m \in Chans :
           /\ ~AllNaNChannel(n) /\ UnderAt(n)
           /\ datadict[1].commonbeams.v[n] = NyquistOf(n)
           /\ ~AllNaNChannel(m) /\ ~UnderAt(m)
           /\ datadict[1].commonbeams.v[m] = RoundedOf(m)

\* ------------------------------------------------------------------ dry run
\* C17 (as claimed): with dryrun set no output cube is initialised or written
\* and no log file is written, on any rank
C17_DryrunWritesNothing ==
    args.dryrun =>
        /\ \A i \in Images :
               outfiles[i].inits = <<>> /\ outfiles[i].planes = <<>>
        /\ \A r \in Ranks : outfile_dict[r] = {}
        /\ \A i \in Images : ~logs[i].exists

\* ------------------------------------------------------ planner's products
\* the convolving beam stored for image i at channel k is the physical beam
\* the claim names: NaN if masked, else common deconvolved by the original
ConvAsClaimed(i, k) ==
    IF datadict[i].mask[k] THEN datadict[i].convbeams.v[k].nan
    ELSE ToArcsec(At(datadict[i].convbeams, k))
         = ToArcsec(Deconvolve(At(datadict[i].commonbeams, k),
                               At(datadict[i].beams, k)).obj)

\* the log of image i has one row per channel, holding what was stored
LogRows(i) ==
    /\ logs[i].exists
    /\ Len(logs[i].target) = nchans
    /\ Len(logs[i].conv) = nchans
    /\ Len(logs[i].fac) = nchans

\* C18 (as claimed): after commonbeamer returns, every image has commonbeams,
\* convbeams and facs of length nchans and a log of one row per channel; the
\* convolving beam of a channel is NaN if the image's mask is set there and
\* otherwise the channel's common beam deconvolved by the image's original
\* beam; in total mode every channel of every image has the same common beam
C18_Products ==
    (Solving /\ PlanOk) =>
        /\ \A i \in Cubes :
               /\ Len(datadict[i].commonbeams.v) = nchans
               /\ Len(datadict[i].convbeams.v) = nchans
               /\ Len(datadict[i].facs) = nchans
               /\ LogRows(i)
               /\ \A k \in Chans : ConvAsClaimed(i, k)
        /\ args.mode = "total" =>
               \A i \in Cubes, j \in Cubes : \A k \in Chans, m \in Chans :
                   At(datadict[i].commonbeams, k) = At(datadict[j].commonbeams, m)

\* ------------------------------------------------------------------- smooth
\* what smooth must return for image i at channel ch, given what the planner
\* stored and what the input plane holds
SmoothAsClaimed(i, ch, p) ==
    IF datadict[i].convbeams.v[ch].nan
    THEN p.kind = "nan" /\ p.facs = <<>>
    ELSE IF <<i, ch>> \in env.blank
    THEN p.kind = "unchanged" /\ p.facs = <<>>
    ELSE /\ p.kind = "convolved"
         /\ Len(p.facs) = 1
         /\ IF args.conv_mode = "robust" THEN p.facs[1].by = "backend"
            ELSE p.facs[1] = [by |-> "sfactor", val |-> datadict[i].facs[ch]]

\* C19: every plane written to an output cube is what smooth returns without
\* raising: all NaN where the convolving beam is NaN, the input plane itself
\* where that is entirely NaN, and otherwise the convolved plane times one
\* factor, the planner's under scipy, astropy and astropy_fft and the
\* backend's own under robust; a plane not yet written is as initialised
C19_Smooth ==
    \A i \in Images : \A ch \in 1..Len(outfiles[i].data) :
        IF outfiles[i].planes[ch] = 0 THEN outfiles[i].data[ch] = NoPlane
        ELSE SmoothAsClaimed(i, ch, outfiles[i].data[ch])

\* a run that ended after writing an all-NaN plane for a NaN convolving beam,
\* a blank input plane unchanged, and a plane convolved and scaled by sfactor
C19_Witness ==
    /\ pc[0] = "done" /\ ~args.dryrun /\ args.conv_mode = "astropy_fft"
    /\ \E a \in Chans, b \in Chans, c \in Chans :
           /\ outfiles[1].data[a].kind = "nan"
           /\ outfiles[1].data[b].kind = "unchanged"
           /\ outfiles[1].data[c].kind = "convolved"
           /\ ~datadict[1].facs[c].nan

\* ------------------------------------------------------ file initialisation
\* every rank has left the initialisation loop and the gather
InitOver == \A r \in Ranks : Stage(pc[r]) > 4

\* rank r has no image to initialise: more ranks than images, and r beyond them
Idle(r) == env.nPE > env.nfiles /\ r >= env.nfiles

Gathered == UNION {outlist[q].imgs : q \in Ranks}

\* C20: whatever nPE and the number of images, no output file is initialised
\* twice, a rank without an image initialises nothing, and once every rank is
\* through the phase each image has been initialised by exactly one rank,
\* which holds its name; with MPI, when rank 0 returns from the gather it
\* holds a name for every image, and it stores all of them in datadict
C20_InitOnce ==
    /\ \A i \in Images : Len(outfiles[i].inits) <= 1
    /\ \A r \in Ranks :
           Idle(r) => /\ outfile_dict[r] = {}
                      /\ \A i \in Images : outfiles[i].inits # <<r>>
    /\ InitOver =>
           \A i \in Images :
               /\ Len(outfiles[i].inits) = 1
               /\ \A r \in Ranks :
                      i \in outfile_dict[r] <=> outfiles[i].inits = <<r>>
    /\ env.mpiSwitch /\ Stage(pc[0]) > 4 => Gathered = Images
    /\ env.mpiSwitch /\ Stage(pc[0]) > 7 =>
           \A i \in Images : datadict[i].outfile

\* three ranks and two images: the phase is over and rank 2 initialised nothing
C20_Witness ==
    /\ InitOver /\ env.mpiSwitch
    /\ env.nPE = 3 /\ env.nfiles = 2
    /\ outfile_dict[2] = {} /\ outfile_dict[0] = {1} /\ outfile_dict[1] = {2}
    /\ Gathered = Images

\* ---------------------------------------------------- a run without MPI
\* every (image, channel) plane has been written exactly once
AllWrittenOnce ==
    \A i \in Images :
        /\ Len(outfiles[i].planes) = nchans
        /\ \A ch \in Chans : outfiles[i].planes[ch] = 1

\* C21 (as claimed): a single-process run without MPI, not a dry run and
\* with valid inputs and no I/O failure, raises nothing on its way from
\* planning through initialisation to the convolution phase, and when it
\* finishes every image has its output file recorded and every (image,
\* channel) plane has been convolved and written exactly once
C21_SingleProcess ==
    (~env.mpiSwitch /\ ~args.dryrun /\ env.fault = NoFault) =>
        /\ pc[0] # "failed"
        /\ pc[0] = "done" =>
               /\ AllWrittenOnce
               /\ \A i \in Cubes : datadict[i].outfile

\* ------------------------------------------- the assembled common beams
\* the beam adopted for channel n in the per-channel loop, in arcsec
Adopted(n) ==
    IF AllNaNChannel(n) THEN NaNBeam
    ELSE IF UnderAt(n) THEN NyquistOf(n)
    ELSE RoundedOf(n)

\* C22 (as claimed): in natural mode, whenever commonbeamer returns, every
\* channel's entry of the assembled commonbeams is physically the beam that
\* was adopted for that channel in the loop, whichever channels are all NaN
\* and whichever channel comes last
C22_AssembledUnits ==
    (NaturalRun /\ PlanOk) =>
        \A i \in Cubes : \A n \in Chans :
            ToArcsec(At(datadict[i].commonbeams, n)) = Adopted(n)

\* -------------------------------------------------------------- termination
AllDone == \A r \in Ranks : pc[r] = "done"

SomeFailed == \E r \in Ranks : pc[r] = "failed"

\* rank 0 has returned from the planner and stands before the first barrier
Planned0 == env.mpiSwitch /\ pc[0] = "bar1"

\* C23: in an MPI run, dry or not, with valid arguments and plain beams, no
\* rank raises an error unless an I/O operation fails, and once rank 0 has
\* returned from the planner no rank stays blocked in a barrier, broadcast
\* or gather: unless some rank raises an error, every rank eventually
\* reaches the end of main
C23_Terminates ==
    /\ [](env.mpiSwitch /\ env.fault = NoFault => ~SomeFailed)
    /\ Planned0 ~> (AllDone \/ SomeFailed)

\* three ranks went through every collective of a full run and all are done
C23_Witness ==
    /\ env.mpiSwitch /\ env.nPE = 3 /\ ~args.dryrun
    /\ AllDone
    /\ \A r \in Ranks : arrived[r] = 3 /\ outlist[r].done
    /\ sent = 2

====
